---- MODULE Spec2Model ----
(***************************************************************************)
(* Model of the CinemaAbyss migration code:                                *)
(*   - the events service (src/src/microservices/events/main.go): the      *)
(*     lazily constructed Kafka writer, the three event endpoints and the  *)
(*     publish path;                                                       *)
(*   - the strangler-fig proxy (src/unnamed/part_000): configuration       *)
(*     loading and the routing decision.                                   *)
(* The two programs are separate processes; Spec is the events service,    *)
(* RaceSpec is getKafkaWriter/sendToKafka under callers that race on the   *)
(* first use, GatewaySpec is the proxy.                                    *)
(***************************************************************************)
EXTENDS Integers, Sequences, FiniteSets, TLC

VARIABLES
    pc,             \* events: position of main (process 0) and of each caller
    req,            \* events: the request (or direct call) each caller serves
    eventData,      \* events: the decoded event of each caller
    writer,         \* events: the *kafka.Writer each caller got from getKafkaWriter
    sent,           \* events: per caller, the WriteMessages calls it made
    response,       \* events: per caller, the HTTP status written (0: none yet)
    kafkaWriter,    \* events: package variable kafkaWriter (0 is nil)
    onceDone,       \* events: once.done
    onceM,          \* events: owner of once.m (-1: unlocked)
    initCount,      \* events: number of runs of initKafkaWriter
    env,            \* proxy: the environment variables loadConfig reads
    config,         \* proxy: the *ProxyConfig built by loadConfig
    randDraws,      \* proxy: state of the global random source (draws taken so far)
    lastRequest,    \* proxy: the last request served and what was decided for it
    tasks,          \* events: the consumeTopic goroutines main started, in order
    readersMade     \* events: number of kafka.NewReader calls

evVars == <<pc, req, eventData, writer, sent, response,
            kafkaWriter, onceDone, onceM, initCount>>
gwVars == <<env, config, randDraws, lastRequest>>
csVars == <<tasks, readersMade>>
vars == <<pc, req, eventData, writer, sent, response,
          kafkaWriter, onceDone, onceM, initCount,
          env, config, randDraws, lastRequest, tasks, readersMade>>

(***************************************************************************)
(* Bounds of the model.                                                    *)
(***************************************************************************)
\* request handlers (or direct callers of sendToKafka) that may run concurrently
MaxHandlers == 2
\* draws the proxy may take from the random source
MaxDraws == 1
\* MOVIES_MIGRATION_PERCENT ranges over -PercentSlack .. 100 + PercentSlack
PercentSlack == 1

(***************************************************************************)
(* Events service: topics and event variants.                              *)
(***************************************************************************)
movieTopic == "movie-events"
userTopic == "user-events"
paymentTopic == "payment-events"

Topics == {movieTopic, userTopic, paymentTopic}

Field(k, t) == [key |-> k, type |-> t]

MovieEvent ==
    << Field("movie_id", "int"), Field("title", "string"),
       Field("action", "string"), Field("user_id", "int") >>

UserEvent ==
    << Field("user_id", "int"), Field("username", "string"),
       Field("action", "string"), Field("timestamp", "time") >>

PaymentEvent ==
    << Field("payment_id", "int"), Field("user_id", "int"),
       Field("amount", "float64"), Field("status", "string"),
       Field("timestamp", "time") >>

\* the variant parseEventData allocates for a topic (<<>>: the default branch)
VariantOf(topic) ==
    CASE topic = movieTopic -> MovieEvent
      [] topic = userTopic -> UserEvent
      [] topic = paymentTopic -> PaymentEvent
      [] OTHER -> <<>>

KeysOf(fields) == {fields[i].key : i \in 1..Len(fields)}

(***************************************************************************)
(* JSON text and Go values.                                                *)
(* A JSON number is kept in hundredths (n = 150 is 1.5), a Go value is     *)
(* [n, s]: an int or an instant or a float64 (in hundredths) in n, a       *)
(* string in s.  The zero value of every Go type is [n |-> 0, s |-> ""].   *)
(***************************************************************************)
JNum(c) == [t |-> "num", n |-> c, s |-> ""]
JStr(x) == [t |-> "str", n |-> 0, s |-> x]
JNull == [t |-> "null", n |-> 0, s |-> ""]

GoZero == [n |-> 0, s |-> ""]
GoNum(v) == [n |-> v, s |-> ""]
GoStr(x) == [n |-> 0, s |-> x]

\* RFC 3339 texts time.Time.UnmarshalJSON accepts, with the instant they denote
\* (instant 0 is the zero time.Time)
TimeTexts ==
    {"0001-01-01T00:00:00Z", "2024-05-01T10:00:00Z", "2024-05-01T10:00:00.000Z"}

ParseTime(x) ==
    CASE x = "0001-01-01T00:00:00Z" -> 0
      [] x = "2024-05-01T10:00:00Z" -> 1
      [] x = "2024-05-01T10:00:00.000Z" -> 1
      [] OTHER -> 0

\* time.Time.MarshalJSON: RFC 3339 with the zero fraction dropped
FormatTime(i) ==
    IF i = 0 THEN "0001-01-01T00:00:00Z" ELSE "2024-05-01T10:00:00Z"

\* encoding/json folds the case of an object key when it looks up the field
FoldKey(k) ==
    CASE k = "MOVIE_ID" -> "movie_id"
      [] k = "Title" -> "title"
      [] OTHER -> k

\* whether the decoder can store JSON value v into a field of Go type t
Assignable(t, v) ==
    CASE t = "int" -> v.t = "num" /\ v.n % 100 = 0
      [] t = "float64" -> v.t = "num"
      [] t = "string" -> v.t = "str"
      [] t = "time" -> v.t = "str" /\ v.s \in TimeTexts
      [] OTHER -> FALSE

\* the Go value stored for an assignable JSON value
FromJSON(t, v) ==
    CASE t = "int" -> GoNum(v.n \div 100)
      [] t = "float64" -> GoNum(v.n)
      [] t = "string" -> GoStr(v.s)
      [] t = "time" -> GoNum(ParseTime(v.s))
      [] OTHER -> GoZero

\* json.Marshal of one field
ToJSON(t, g) ==
    CASE t = "int" -> JNum(g.n * 100)
      [] t = "float64" -> JNum(g.n)
      [] t = "string" -> JStr(g.s)
      [] t = "time" -> JStr(FormatTime(g.n))
      [] OTHER -> JNull

ZeroEvent(fields) == [k \in KeysOf(fields) |-> GoZero]

\* a request body: the first JSON value of the stream, and whether bytes follow it
\*   kind "object": members, in order, as <<key, value>>
\*   kind "null" | "array" | "syntax" (malformed text) | "empty" (no bytes)
Object(members) == [kind |-> "object", members |-> members, trailing |-> FALSE]
Raw(kind) == [kind |-> kind, members |-> <<>>, trailing |-> FALSE]
WithTrailing(b) == [b EXCEPT !.trailing = TRUE]

\* decoding of an object's members into the struct, in order: an unknown key and
\* a null are skipped, a later duplicate overwrites, an unassignable value is an error
RECURSIVE DecodeMembers(_, _, _)
DecodeMembers(fields, members, ev) ==
    IF members = <<>> THEN [err |-> FALSE, ev |-> ev]
    ELSE LET k == FoldKey(Head(members)[1])
             v == Head(members)[2]
             hit == {i \in 1..Len(fields) : fields[i].key = k}
         IN IF hit = {} \/ v.t = "null"
            THEN DecodeMembers(fields, Tail(members), ev)
            ELSE LET f == fields[CHOOSE i \in hit : TRUE]
                 IN IF ~Assignable(f.type, v)
                    THEN [err |-> TRUE, ev |-> ZeroEvent(fields)]
                    ELSE DecodeMembers(fields, Tail(members),
                                       [ev EXCEPT ![f.key] = FromJSON(f.type, v)])

\* json.NewDecoder(r.Body).Decode(eventData): reads the first value only
Decode(fields, body) ==
    CASE body.kind = "object" -> DecodeMembers(fields, body.members, ZeroEvent(fields))
      [] body.kind = "null" -> [err |-> FALSE, ev |-> ZeroEvent(fields)]
      [] OTHER -> [err |-> TRUE, ev |-> ZeroEvent(fields)]

\* json.Marshal(eventData): every field, in declaration order
Marshal(fields, ev) ==
    Object([i \in 1..Len(fields) |->
                <<fields[i].key, ToJSON(fields[i].type, ev[fields[i].key])>>])

(***************************************************************************)
(* Events service: requests.                                               *)
(***************************************************************************)
Endpoints == {"/api/events/movie", "/api/events/user", "/api/events/payment"}

\* main: the topic each registered handler closure is built with
TopicOfEndpoint(e) ==
    CASE e = "/api/events/movie" -> movieTopic
      [] e = "/api/events/user" -> userTopic
      [] e = "/api/events/payment" -> paymentTopic
      [] OTHER -> ""

MovieValid ==
    Object(<< <<"movie_id", JNum(100)>>, <<"title", JStr("Dune")>>,
              <<"action", JStr("viewed")>>, <<"user_id", JNum(4200)>> >>)
MovieTitleOnly == Object(<< <<"title", JStr("Dune")>> >>)
\* folded keys, an unknown key, a null, a duplicate key and bytes after the object
MovieFolded ==
    WithTrailing(
        Object(<< <<"MOVIE_ID", JNum(700)>>, <<"Title", JStr("Dune")>>,
                  <<"rating", JNum(450)>>, <<"action", JStr("rated")>>,
                  <<"user_id", JNum(100)>>, <<"action", JNull>>,
                  <<"user_id", JNum(4200)>> >>))
MovieBadType ==
    Object(<< <<"movie_id", JStr("1")>>, <<"title", JStr("Dune")>>,
              <<"action", JStr("viewed")>>, <<"user_id", JNum(4200)>> >>)
MovieFraction ==
    Object(<< <<"movie_id", JNum(150)>>, <<"title", JStr("Dune")>>,
              <<"action", JStr("viewed")>>, <<"user_id", JNum(4200)>> >>)

UserValid ==
    Object(<< <<"user_id", JNum(4200)>>, <<"username", JStr("ann")>>,
              <<"action", JStr("login")>>,
              <<"timestamp", JStr("2024-05-01T10:00:00.000Z")>> >>)
UserZeroTime ==
    Object(<< <<"user_id", JNum(4200)>>, <<"username", JStr("ann")>>,
              <<"action", JStr("login")>>,
              <<"timestamp", JStr("0001-01-01T00:00:00Z")>> >>)
UserBadTime ==
    Object(<< <<"user_id", JNum(4200)>>, <<"username", JStr("ann")>>,
              <<"action", JStr("login")>>, <<"timestamp", JStr("yesterday")>> >>)

PaymentValid ==
    Object(<< <<"payment_id", JNum(900)>>, <<"user_id", JNum(4200)>>,
              <<"amount", JNum(999)>>, <<"status", JStr("paid")>>,
              <<"timestamp", JStr("2024-05-01T10:00:00Z")>> >>)
PaymentZeroAmount ==
    Object(<< <<"payment_id", JNum(900)>>, <<"user_id", JNum(4200)>>,
              <<"amount", JNum(0)>>, <<"status", JStr("paid")>>,
              <<"timestamp", JStr("2024-05-01T10:00:00Z")>> >>)

AnyBodies == {Raw("syntax"), Raw("empty"), Raw("null")}

BodiesFor(e) ==
    CASE e = "/api/events/movie" ->
            {MovieValid, MovieTitleOnly, MovieFolded, MovieBadType, MovieFraction,
             UserValid} \cup AnyBodies
      [] e = "/api/events/user" ->
            {UserValid, UserZeroTime, UserBadTime} \cup AnyBodies
      [] e = "/api/events/payment" ->
            {PaymentValid, PaymentZeroAmount} \cup AnyBodies
      [] OTHER -> {}

Request(e, m, b) == [endpoint |-> e, method |-> m, body |-> b, http |-> TRUE]

\* the HTTP requests the three event endpoints may receive
Requests ==
    UNION {{Request(e, "POST", b) : b \in BodiesFor(e)} : e \in Endpoints}
    \cup {Request(e, m, MovieValid) : e \in Endpoints, m \in {"GET", "PUT"}}

NoRequest == [endpoint |-> "", method |-> "", body |-> Raw("empty"), http |-> FALSE]
NoEvent == [k \in {"none"} |-> GoZero]

\* a call of sendToKafka that does not come from an HTTP handler
DirectCall(e) ==
    [endpoint |-> e, method |-> "", body |-> Raw("empty"), http |-> FALSE]

\* the event such a call passes for an endpoint
DirectEvent(e) ==
    CASE e = "/api/events/movie" -> Decode(MovieEvent, MovieValid).ev
      [] e = "/api/events/user" -> Decode(UserEvent, UserValid).ev
      [] OTHER -> Decode(PaymentEvent, PaymentValid).ev

(***************************************************************************)
(* Events service: processes.                                              *)
(***************************************************************************)
Main == 0
Handlers == 1..MaxHandlers
Procs == {Main} \cup Handlers

Nil == 0
NoOwner == -1

StatusCreated == 201
StatusBadRequest == 400
StatusMethodNotAllowed == 405
StatusInternalServerError == 500

\* parseEventData(topic, r)
parseEventData(topic, body) ==
    IF VariantOf(topic) = <<>>
    THEN [err |-> TRUE, ev |-> NoEvent]
    ELSE Decode(VariantOf(topic), body)

\* faulty variant: the method check lets every method through
MethodAllowedAny(m) == TRUE

\* handleEvent: whether the method check lets the request through
MethodAllowed(m) == m = "POST"

\* faulty variant: the decode error is dropped
ParseRejectsNever(d) == FALSE

\* handleEvent: whether the parse result stops the request
ParseRejects(d) == d.err

\* handleEvent: the status written once sendToKafka has returned
StatusAfterSend(ok) ==
    IF ok THEN StatusCreated ELSE StatusInternalServerError

\* faulty variant: a failed write is tried again
AfterSendRetry(ok) == IF ok THEN "done" ELSE "write"

\* handleEvent: where the handler goes once sendToKafka has returned
AfterSend(ok) == "done"

\* faulty variant: every message is addressed to the movie topic
MessageOneTopic(topic, ev) ==
    [topic |-> movieTopic, value |-> Marshal(VariantOf(topic), ev)]

\* sendToKafka: the kafka.Message built for topic and eventData
Message(topic, ev) == [topic |-> topic, value |-> Marshal(VariantOf(topic), ev)]

\* faulty variant: doSlow does not wait for once.m
OnceMutexIgnored == TRUE

\* sync.Once: doSlow may take once.m
OnceMutexFree == onceM = NoOwner

\* sync.Once: doSlow runs f only while done is still unset
OnceMustRun == ~onceDone

\* initKafkaWriter: a fresh writer, named by its order of construction
initKafkaWriter == initCount + 1

EvInit ==
    /\ pc = [p \in Procs |-> IF p = Main THEN "once" ELSE "idle"]
    /\ req = [p \in Procs |-> NoRequest]
    /\ eventData = [p \in Procs |-> NoEvent]
    /\ writer = [p \in Procs |-> Nil]
    /\ sent = [p \in Procs |-> <<>>]
    /\ response = [p \in Procs |-> 0]
    /\ kafkaWriter = Nil
    /\ onceDone = FALSE
    /\ onceM = NoOwner
    /\ initCount = 0
    /\ tasks = <<>>
    /\ readersMade = 0

\* handleEvent up to the call of sendToKafka: method check and parseEventData
HandleEvent(p, r) ==
    /\ pc[Main] = "serving"
    /\ pc[p] = "idle"
    /\ req' = [req EXCEPT ![p] = r]
    /\ IF ~MethodAllowed(r.method)
       THEN /\ response' = [response EXCEPT ![p] = StatusMethodNotAllowed]
            /\ pc' = [pc EXCEPT ![p] = "done"]
            /\ UNCHANGED eventData
       ELSE LET d == parseEventData(TopicOfEndpoint(r.endpoint), r.body)
            IN IF ParseRejects(d)
               THEN /\ response' = [response EXCEPT ![p] = StatusBadRequest]
                    /\ pc' = [pc EXCEPT ![p] = "done"]
                    /\ UNCHANGED eventData
               ELSE /\ eventData' = [eventData EXCEPT ![p] = d.ev]
                    /\ pc' = [pc EXCEPT ![p] = "once"]
                    /\ UNCHANGED response
    /\ UNCHANGED <<writer, sent, kafkaWriter, onceDone, onceM, initCount>>
    /\ UNCHANGED <<gwVars, csVars>>

\* sendToKafka called directly, as any caller of the package may
DirectSend(p, e) ==
    /\ pc[p] = "idle"
    /\ req' = [req EXCEPT ![p] = DirectCall(e)]
    /\ eventData' = [eventData EXCEPT ![p] = DirectEvent(e)]
    /\ pc' = [pc EXCEPT ![p] = "once"]
    /\ UNCHANGED <<writer, sent, response, kafkaWriter, onceDone, onceM, initCount>>
    /\ UNCHANGED <<gwVars, csVars>>

\* faulty variant: a caller that finds the construction under way does not wait
OnceFastPathBusy == onceDone \/ onceM # NoOwner

\* once.Do: the fast path is taken only when done has been stored
OnceFastPath == onceDone

\* getKafkaWriter, once.Do: the load of once.done
OnceDo(p) ==
    /\ pc[p] = "once"
    /\ pc' = [pc EXCEPT ![p] = IF OnceFastPath THEN "ret" ELSE "lock"]
    /\ UNCHANGED <<req, eventData, writer, sent, response,
                   kafkaWriter, onceDone, onceM, initCount>>
    /\ UNCHANGED <<gwVars, csVars>>

\* once.doSlow: o.m.Lock()
OnceLock(p) ==
    /\ pc[p] = "lock"
    /\ OnceMutexFree
    /\ onceM' = p
    /\ pc' = [pc EXCEPT ![p] = "slow"]
    /\ UNCHANGED <<req, eventData, writer, sent, response,
                   kafkaWriter, onceDone, initCount>>
    /\ UNCHANGED <<gwVars, csVars>>

\* once.doSlow: the second load of once.done and, if unset, f():
\* kafkaWriter = initKafkaWriter()
OnceDoSlow(p) ==
    /\ pc[p] = "slow"
    /\ IF OnceMustRun
       THEN /\ kafkaWriter' = initKafkaWriter
            /\ initCount' = initCount + 1
            /\ pc' = [pc EXCEPT ![p] = "store"]
       ELSE /\ pc' = [pc EXCEPT ![p] = "unlock"]
            /\ UNCHANGED <<kafkaWriter, initCount>>
    /\ UNCHANGED <<req, eventData, writer, sent, response, onceDone, onceM>>
    /\ UNCHANGED <<gwVars, csVars>>

\* once.doSlow: the deferred o.done.Store(1)
OnceStore(p) ==
    /\ pc[p] = "store"
    /\ onceDone' = TRUE
    /\ pc' = [pc EXCEPT ![p] = "unlock"]
    /\ UNCHANGED <<req, eventData, writer, sent, response,
                   kafkaWriter, onceM, initCount>>
    /\ UNCHANGED <<gwVars, csVars>>

\* once.doSlow: the deferred o.m.Unlock()
OnceUnlock(p) ==
    /\ pc[p] = "unlock"
    /\ onceM' = NoOwner
    /\ pc' = [pc EXCEPT ![p] = "ret"]
    /\ UNCHANGED <<req, eventData, writer, sent, response,
                   kafkaWriter, onceDone, initCount>>
    /\ UNCHANGED <<gwVars, csVars>>

\* getKafkaWriter: return kafkaWriter
GetKafkaWriterReturn(p) ==
    /\ pc[p] = "ret"
    /\ writer' = [writer EXCEPT ![p] = kafkaWriter]
    /\ pc' = [pc EXCEPT ![p] = IF p = Main THEN "spawn" ELSE "write"]
    /\ UNCHANGED <<req, eventData, sent, response,
                   kafkaWriter, onceDone, onceM, initCount>>
    /\ UNCHANGED <<gwVars, csVars>>

\* sendToKafka: writer.WriteMessages, which the broker accepts or fails, and
\* handleEvent's answer to its result
WriteMessages(p) ==
    /\ pc[p] = "write"
    /\ \E ok \in BOOLEAN :
          LET m == Message(TopicOfEndpoint(req[p].endpoint), eventData[p])
          IN /\ sent' = [sent EXCEPT ![p] =
                            Append(@, [topic |-> m.topic, value |-> m.value,
                                       writer |-> writer[p], ok |-> ok])]
             /\ response' = [response EXCEPT ![p] =
                                IF req[p].http THEN StatusAfterSend(ok) ELSE 0]
             /\ pc' = [pc EXCEPT ![p] = AfterSend(ok)]
    /\ UNCHANGED <<req, eventData, writer, kafkaWriter, onceDone, onceM, initCount>>
    /\ UNCHANGED <<gwVars, csVars>>

(***************************************************************************)
(* Events service: the consumer tasks.                                     *)
(***************************************************************************)
\* main: topics, in the order of the loop
TopicList == <<movieTopic, userTopic, paymentTopic>>

\* consumeTopic: the GroupID of every reader
GroupID == "cinemaabyss-events-consumer-group"

NoReader == [topic |-> "", group |-> "", open |-> FALSE]

\* faulty variant: every task is started for the last topic of the list
TopicAtLast(i) == TopicList[Len(TopicList)]

\* main: the topic passed to the i-th go consumeTopic(...)
TopicAt(i) == TopicList[i]

\* go consumeTopic(context.Background(), topic, &wg): a task that has not run yet;
\* returned is what reader.ReadMessage has returned to it, log what it has logged
NewTask(topic) ==
    [topic |-> topic, pc |-> "start", reader |-> NoReader,
     returned |-> <<>>, log |-> <<>>]

\* faulty variant: an error on any task cancels the context of all
CtxDoneShared(i) == \E j \in DOMAIN tasks : tasks[j].pc = "terminated"

\* main passes context.Background(), which is never done
CtxDone(i) == FALSE

\* faulty variant: the loop goes on after a read error
AfterReadErrorRetry == "running"

\* consumeTopic: break on a read error, then the deferred Close and Done
AfterReadError == "terminated"

\* faulty variant: the loop ends after the first message
AfterLogStop == "terminated"

\* consumeTopic: the for loop goes back to ReadMessage after the log line
AfterLog == "running"

\* faulty variant: the line carries the offset of the next message
LogLineNextOffset(m) ==
    [kind |-> "message", topic |-> m.topic, offset |-> m.offset + 1,
     value |-> m.value, cause |-> ""]

\* consumeTopic: the line logged for a message
LogLine(m) ==
    [kind |-> "message", topic |-> m.topic, offset |-> m.offset,
     value |-> m.value, cause |-> ""]

\* consumeTopic: the line logged when the consumer starts and on a read error
StartLine(topic) ==
    [kind |-> "start", topic |-> topic, offset |-> 0,
     value |-> Raw("empty"), cause |-> ""]
ErrorLine(topic, cause) ==
    [kind |-> "error", topic |-> topic, offset |-> 0,
     value |-> Raw("empty"), cause |-> cause]

\* the callers whose message the broker holds on the topic of task i and has not
\* yet returned to it (the broker may return them in any order)
Available(i) ==
    {p \in Handlers :
        /\ \E k \in 1..Len(sent[p]) :
              sent[p][k].ok /\ sent[p][k].topic = tasks[i].topic
        /\ \A k \in 1..Len(tasks[i].returned) : tasks[i].returned[k].src # p}

\* main: one iteration of the loop over topics, wg.Add(1) and go consumeTopic
MainSpawn ==
    /\ pc[Main] = "spawn"
    /\ Len(tasks) < Len(TopicList)
    /\ tasks' = Append(tasks, NewTask(TopicAt(Len(tasks) + 1)))
    /\ pc' = [pc EXCEPT ![Main] =
                 IF Len(tasks) + 1 = Len(TopicList) THEN "listen" ELSE "spawn"]
    /\ UNCHANGED <<req, eventData, writer, sent, response,
                   kafkaWriter, onceDone, onceM, initCount, readersMade>>
    /\ UNCHANGED gwVars

\* consumeTopic: kafka.NewReader and the start line
ConsumerStart(i) ==
    /\ i \in DOMAIN tasks
    /\ tasks[i].pc = "start"
    /\ readersMade' = readersMade + 1
    /\ tasks' = [tasks EXCEPT
                    ![i].reader = [topic |-> tasks[i].topic,
                                   group |-> GroupID, open |-> TRUE],
                    ![i].log = Append(@, StartLine(tasks[i].topic)),
                    ![i].pc = "running"]
    /\ UNCHANGED evVars
    /\ UNCHANGED gwVars

\* consumeTopic: reader.ReadMessage(ctx) returns the next message
ConsumerReadOk(i) ==
    /\ i \in DOMAIN tasks
    /\ tasks[i].pc = "running"
    /\ ~CtxDone(i)
    /\ \E p \in Available(i) :
          LET k == CHOOSE k \in 1..Len(sent[p]) :
                      sent[p][k].ok /\ sent[p][k].topic = tasks[i].topic
          IN tasks' = [tasks EXCEPT
                          ![i].returned =
                              Append(@, [topic |-> tasks[i].topic,
                                         offset |-> Len(tasks[i].returned),
                                         value |-> sent[p][k].value, src |-> p]),
                          ![i].pc = "log"]
    /\ UNCHANGED readersMade
    /\ UNCHANGED evVars
    /\ UNCHANGED gwVars

\* consumeTopic: reader.ReadMessage(ctx) returns an error; the error line, break,
\* the deferred reader.Close() and wg.Done()
ConsumerReadError(i) ==
    /\ i \in DOMAIN tasks
    /\ tasks[i].pc = "running"
    /\ tasks' = [tasks EXCEPT
                    ![i].log = Append(@, ErrorLine(tasks[i].topic,
                                   IF CtxDone(i) THEN "context" ELSE "broker")),
                    ![i].reader.open = AfterReadError # "terminated",
                    ![i].pc = AfterReadError]
    /\ UNCHANGED readersMade
    /\ UNCHANGED evVars
    /\ UNCHANGED gwVars

\* consumeTopic: the log line of the message just read
ConsumerLog(i) ==
    /\ i \in DOMAIN tasks
    /\ tasks[i].pc = "log"
    /\ tasks' = [tasks EXCEPT
                    ![i].log = Append(@, LogLine(tasks[i].returned[Len(tasks[i].returned)])),
                    ![i].pc = AfterLog]
    /\ UNCHANGED readersMade
    /\ UNCHANGED evVars
    /\ UNCHANGED gwVars

\* main: handlers registered, http.ListenAndServe
MainListen ==
    /\ pc[Main] = "listen"
    /\ pc' = [pc EXCEPT ![Main] = "serving"]
    /\ UNCHANGED <<req, eventData, writer, sent, response,
                   kafkaWriter, onceDone, onceM, initCount>>
    /\ UNCHANGED <<gwVars, csVars>>

(***************************************************************************)
(* Proxy: paths are sequences of characters, as strings.HasPrefix sees     *)
(* them.                                                                   *)
(***************************************************************************)
Api == <<"/", "a", "p", "i">>
Movies == <<"/", "m", "o", "v", "i", "e", "s">>
Events == <<"/", "e", "v", "e", "n", "t", "s">>
Health == <<"/", "h", "e", "a", "l", "t", "h">>

MoviesPrefix == Api \o Movies
EventsPrefix == Api \o Events

\* the request paths the proxy is driven with
Paths ==
    { MoviesPrefix \o <<"/", "1">>,                     \* /api/movies/1
      MoviesPrefix \o <<"2">>,                          \* /api/movies2
      Api \o <<"/", "m", "o", "v", "i", "e">>,          \* /api/movie
      <<"/", "A", "P", "I">> \o Movies,                 \* /API/movies
      Movies,                                           \* /movies
      EventsPrefix,                                     \* /api/events
      EventsPrefix \o <<"/", "u", "s", "e", "r">>,      \* /api/events/user
      Api \o <<"/", "u", "s", "e", "r", "s">>,          \* /api/users
      Api,                                              \* /api
      <<"/">>,                                          \* /
      Health,                                           \* /health
      Api \o Health }                                   \* /api/health

\* strings.HasPrefix
HasPrefix(s, prefix) ==
    /\ Len(s) >= Len(prefix)
    /\ SubSeq(s, 1, Len(prefix)) = prefix

(***************************************************************************)
(* Proxy: configuration.                                                   *)
(***************************************************************************)
\* a value of MOVIES_MIGRATION_PERCENT: decimal text of an integer, or other text
Num(n) == [digits |-> TRUE, v |-> n]
Txt(i) == [digits |-> FALSE, v |-> i]

PercentTexts ==
    {Num(n) : n \in (0 - PercentSlack)..(100 + PercentSlack)} \cup {Txt(0)}

GradualTexts == {"true", "false", "1"}

Envs == [gradual : GradualTexts, percent : PercentTexts]

\* strconv.Atoi
Atoi(x) == IF x.digits THEN [err |-> FALSE, val |-> x.v] ELSE [err |-> TRUE, val |-> 0]

\* faulty variant: the upper limit is not checked
parseMigrationPercentNoUpper(percentStr) ==
    LET a == Atoi(percentStr)
    IN IF a.err \/ a.val < 0 THEN 0 ELSE a.val

\* parseMigrationPercent
parseMigrationPercent(percentStr) ==
    LET a == Atoi(percentStr)
    IN IF a.err \/ a.val < 0 \/ a.val > 100 THEN 0 ELSE a.val

\* loadConfig, with the default target addresses
loadConfig(e) ==
    [ MonolithURL |-> "http://localhost:8080",
      MoviesServiceURL |-> "http://localhost:8081",
      EventsServiceURL |-> "http://localhost:8082",
      GradualMigration |-> (e.gradual = "true"),
      MoviesMigrationPercent |-> parseMigrationPercent(e.percent) ]

(***************************************************************************)
(* Proxy: the routing decision.  r is the value rand.Intn(100) returns if  *)
(* it is called.                                                           *)
(***************************************************************************)
\* the values rand.Intn(100) may return
Draws == 0..99

\* faulty variant: the comparison is not strict
DrawSelectsMoviesInclusive(r, percent) == r <= percent

\* faulty variant: the draw is taken from 1..100
DrawSelectsMoviesFromOne(r, percent) == r + 1 < percent

\* shouldRouteToMovies: the comparison of the draw with the percentage
DrawSelectsMovies(r, percent) == r < percent

\* faulty variant: the gate is not consulted
shouldRouteToMoviesUngated(cfg, r) ==
    [result |-> DrawSelectsMovies(r, cfg.MoviesMigrationPercent), drew |-> TRUE]

\* faulty variant: the draw is taken before the gate is consulted
shouldRouteToMoviesDrawFirst(cfg, r) ==
    [result |-> cfg.GradualMigration /\ DrawSelectsMovies(r, cfg.MoviesMigrationPercent),
     drew |-> TRUE]

\* shouldRouteToMovies: its result, and whether it called rand.Intn
shouldRouteToMovies(cfg, r) ==
    IF ~cfg.GradualMigration
    THEN [result |-> FALSE, drew |-> FALSE]
    ELSE [result |-> DrawSelectsMovies(r, cfg.MoviesMigrationPercent), drew |-> TRUE]

Route(target, label, drew) == [target |-> target, label |-> label, drew |-> drew]

\* faulty variant: the default branch selects the events service
routeRequestDefaultEvents(cfg, path, r) ==
    IF HasPrefix(path, MoviesPrefix)
    THEN LET s == shouldRouteToMovies(cfg, r)
         IN IF s.result
            THEN Route(cfg.MoviesServiceURL, "movies-service", s.drew)
            ELSE Route(cfg.MonolithURL, "monolith", s.drew)
    ELSE Route(cfg.EventsServiceURL, "events-service", FALSE)

\* faulty variant: the events area is split like the movies area
routeRequestEventsSplit(cfg, path, r) ==
    IF HasPrefix(path, MoviesPrefix) \/ HasPrefix(path, EventsPrefix)
    THEN LET s == shouldRouteToMovies(cfg, r)
         IN IF s.result
            THEN Route(IF HasPrefix(path, MoviesPrefix)
                       THEN cfg.MoviesServiceURL ELSE cfg.EventsServiceURL,
                       IF HasPrefix(path, MoviesPrefix)
                       THEN "movies-service" ELSE "events-service", s.drew)
            ELSE Route(cfg.MonolithURL, "monolith", s.drew)
    ELSE Route(cfg.MonolithURL, "monolith", FALSE)

\* routeRequest: the target the reverse proxy is built for, and the label
routeRequest(cfg, path, r) ==
    IF HasPrefix(path, MoviesPrefix)
    THEN LET s == shouldRouteToMovies(cfg, r)
         IN IF s.result
            THEN Route(cfg.MoviesServiceURL, "movies-service", s.drew)
            ELSE Route(cfg.MonolithURL, "monolith", s.drew)
    ELSE IF HasPrefix(path, EventsPrefix)
    THEN Route(cfg.EventsServiceURL, "events-service", FALSE)
    ELSE Route(cfg.MonolithURL, "monolith", FALSE)

\* faulty variant: only the catch-all pattern is registered
MuxHandlerCatchAll(path) == "mainHandler"

\* main: the handler http.ServeMux selects for a path ("/health" and
\* "/api/health" are exact patterns, "/" takes every other path)
MuxHandler(path) ==
    IF path = Health \/ path = Api \o Health THEN "healthHandler" ELSE "mainHandler"

NoDraw == -1
StatusOK == 200

NoGwRequest ==
    [path |-> <<>>, handler |-> "", target |-> "", label |-> "",
     drew |-> FALSE, draw |-> NoDraw, status |-> 0, service |-> ""]

DefaultEnv == [gradual |-> "false", percent |-> Num(0)]

GwInit ==
    /\ env \in Envs
    /\ config = loadConfig(env)
    /\ randDraws = 0
    /\ lastRequest = NoGwRequest

\* the values rand.Intn(100) may return to the decision for path: any of Draws
\* if the decision calls it, and a single unused value if it does not
IntnResults(cfg, path) ==
    IF routeRequest(cfg, path, 0).drew THEN Draws ELSE {0}

\* mainHandler: routeRequest, then proxy.ServeHTTP to the chosen target
MainHandler(path) ==
    /\ MuxHandler(path) = "mainHandler"
    /\ IntnResults(config, path) = Draws => randDraws < MaxDraws
    /\ \E r \in IntnResults(config, path) :
          LET d == routeRequest(config, path, r)
          IN /\ randDraws' = IF d.drew THEN randDraws + 1 ELSE randDraws
             /\ lastRequest' =
                   [path |-> path, handler |-> "mainHandler", target |-> d.target,
                    label |-> d.label, drew |-> d.drew,
                    draw |-> IF d.drew THEN r ELSE NoDraw, status |-> 0,
                    service |-> ""]
    /\ UNCHANGED <<env, config>>
    /\ UNCHANGED <<evVars, csVars>>

\* healthHandler: answered by the proxy itself
HealthHandler(path) ==
    /\ MuxHandler(path) = "healthHandler"
    /\ lastRequest' =
          [path |-> path, handler |-> "healthHandler", target |-> "", label |-> "",
           drew |-> FALSE, draw |-> NoDraw, status |-> StatusOK,
           service |-> "strangler-fig-proxy"]
    /\ UNCHANGED <<env, config, randDraws>>
    /\ UNCHANGED <<evVars, csVars>>

(***************************************************************************)
(* Specifications.                                                         *)
(***************************************************************************)
GwIdle ==
    /\ env = DefaultEnv
    /\ config = loadConfig(DefaultEnv)
    /\ randDraws = 0
    /\ lastRequest = NoGwRequest

\* the events service: main constructs the writer, then serves requests
Init == EvInit /\ GwIdle

Next ==
    \/ \E p \in Handlers : \E r \in Requests : HandleEvent(p, r)
    \/ \E p \in Procs : OnceDo(p)
    \/ \E p \in Procs : OnceLock(p)
    \/ \E p \in Procs : OnceDoSlow(p)
    \/ \E p \in Procs : OnceStore(p)
    \/ \E p \in Procs : OnceUnlock(p)
    \/ \E p \in Procs : GetKafkaWriterReturn(p)
    \/ \E p \in Handlers : WriteMessages(p)
    \/ MainSpawn
    \/ MainListen

Spec == Init /\ [][Next]_vars

\* getKafkaWriter and sendToKafka under callers that race with main and with
\* each other on the first use of the writer
RaceNext ==
    \/ \E p \in Handlers : \E e \in Endpoints : DirectSend(p, e)
    \/ \E p \in Procs : OnceDo(p)
    \/ \E p \in Procs : OnceLock(p)
    \/ \E p \in Procs : OnceDoSlow(p)
    \/ \E p \in Procs : OnceStore(p)
    \/ \E p \in Procs : OnceUnlock(p)
    \/ \E p \in Procs : GetKafkaWriterReturn(p)
    \/ \E p \in Handlers : WriteMessages(p)
    \/ MainSpawn
    \/ MainListen

RaceSpec == Init /\ [][RaceNext]_vars

\* the requests the whole service is driven with: complete events only
ServiceRequests ==
    {Request("/api/events/movie", "POST", MovieValid),
     Request("/api/events/movie", "POST", MovieFolded),
     Request("/api/events/user", "POST", UserValid),
     Request("/api/events/payment", "POST", PaymentValid)}

TaskIds == 1..Len(TopicList)

\* net/http: the server starts one goroutine per accepted connection; handler p
\* is the goroutine of the p-th connection
NextConn(p) == \A q \in Handlers : q < p => pc[q] # "idle"

\* the events service with its consumer tasks running
ServiceNext ==
    \/ \E p \in Handlers : \E r \in ServiceRequests : NextConn(p) /\ HandleEvent(p, r)
    \/ \E p \in Procs : OnceDo(p)
    \/ \E p \in Procs : OnceLock(p)
    \/ \E p \in Procs : OnceDoSlow(p)
    \/ \E p \in Procs : OnceStore(p)
    \/ \E p \in Procs : OnceUnlock(p)
    \/ \E p \in Procs : GetKafkaWriterReturn(p)
    \/ \E p \in Handlers : WriteMessages(p)
    \/ MainSpawn
    \/ MainListen
    \/ \E i \in TaskIds : ConsumerStart(i)
    \/ \E i \in TaskIds : ConsumerReadOk(i)
    \/ \E i \in TaskIds : ConsumerReadError(i)
    \/ \E i \in TaskIds : ConsumerLog(i)

ServiceSpec == Init /\ [][ServiceNext]_vars

\* the proxy
GatewayInit == EvInit /\ GwInit

GatewayNext ==
    \/ \E path \in Paths : MainHandler(path)
    \/ \E path \in Paths : HealthHandler(path)

GatewaySpec == GatewayInit /\ [][GatewayNext]_vars

(***************************************************************************)
(* Properties of the events service.                                       *)
(***************************************************************************)
\* the caller has returned from getKafkaWriter
Returned(p) ==
    \/ pc[p] \in {"spawn", "listen", "serving", "write"}
    \/ pc[p] = "done" /\ sent[p] # <<>>

\* the topic the interface table fixes for an endpoint
FixedTopic(e) ==
    CASE e = "/api/events/movie" -> "movie-events"
      [] e = "/api/events/user" -> "user-events"
      [] e = "/api/events/payment" -> "payment-events"
      [] OTHER -> "none"

\* the body of request r read as the event variant of r's endpoint
Parsed(r) == Decode(VariantOf(FixedTopic(r.endpoint)), r.body)

\* r's body is a JSON object that decodes, with every required field non-zero
CompleteEvent(r) ==
    /\ r.body.kind = "object"
    /\ ~Parsed(r).err
    /\ \A k \in DOMAIN Parsed(r).ev : Parsed(r).ev[k] # GoZero

\* r's body is a JSON object that decodes, with a required field absent or zero
IncompleteEvent(r) ==
    /\ r.body.kind = "object"
    /\ ~Parsed(r).err
    /\ \E k \in DOMAIN Parsed(r).ev : Parsed(r).ev[k] = GoZero

Posted(p) == req[p].http /\ req[p].method = "POST"

\* C1: however main and the callers of sendToKafka interleave on the first use,
\* initKafkaWriter runs at most once and every caller that has returned from
\* getKafkaWriter holds the same writer, the one in kafkaWriter.
C1_ConstructedOnce ==
    /\ initCount <= 1
    /\ \A p \in Procs : \A q \in Procs :
          (Returned(p) /\ Returned(q)) => writer[p] = writer[q]
    /\ \A p \in Procs : Returned(p) => writer[p] = kafkaWriter

\* C1 witness: handler 1 has constructed the writer and still holds once.m, main
\* saw done unset and waits for the lock, and handler 2 already got the writer.
C1_Witness ==
    /\ pc[1] = "unlock" /\ onceM = 1
    /\ pc[Main] = "lock"
    /\ pc[2] = "write" /\ writer[2] = kafkaWriter /\ kafkaWriter # Nil
    /\ initCount = 1

\* C2: a POST whose body is a well-formed object that omits a required field, or
\* carries it zero or empty, is answered 400 and nothing is written to the broker.
C2_IncompleteRejected ==
    \A p \in Handlers :
        (Posted(p) /\ IncompleteEvent(req[p])) =>
            /\ sent[p] = <<>>
            /\ pc[p] = "done" => response[p] = 400

\* C3: a POST carrying a complete event of the endpoint's variant reaches the
\* broker; when the write succeeds the answer is 201 and exactly one message was
\* written, to the endpoint's fixed topic, whose value decodes to the same field
\* values as the request body.
C3_ValidPublished ==
    \A p \in Handlers :
        (Posted(p) /\ CompleteEvent(req[p]) /\ pc[p] = "done") =>
            /\ sent[p] # <<>>
            /\ (\E i \in 1..Len(sent[p]) : sent[p][i].ok) =>
                  /\ response[p] = 201
                  /\ Len(sent[p]) = 1
                  /\ sent[p][1].topic = FixedTopic(req[p].endpoint)
                  /\ sent[p][1].value.kind = "object"
                  /\ LET back == Decode(VariantOf(FixedTopic(req[p].endpoint)),
                                        sent[p][1].value)
                     IN ~back.err /\ back.ev = Parsed(req[p]).ev

\* C3 witness: the user endpoint published an event whose timestamp text differs
\* from the one in the message it wrote.
C3_Witness ==
    \E p \in Handlers :
        /\ pc[p] = "done" /\ Posted(p)
        /\ req[p].endpoint = "/api/events/user" /\ req[p].body = UserValid
        /\ Len(sent[p]) = 1 /\ sent[p][1].ok /\ response[p] = 201
        /\ sent[p][1].value # req[p].body

\* C4: a request whose broker write failed is answered 500 and never 201, and no
\* request makes more than one write attempt.
C4_FailureNotRetried ==
    \A p \in Handlers :
        /\ Len(sent[p]) <= 1
        /\ (req[p].http /\ \E i \in 1..Len(sent[p]) : ~sent[p][i].ok) =>
              /\ response[p] # 201
              /\ pc[p] = "done" => response[p] = 500

\* C4 witness: a complete event whose only write attempt failed, answered 500.
C4_Witness ==
    \E p \in Handlers :
        /\ pc[p] = "done" /\ Posted(p) /\ CompleteEvent(req[p])
        /\ Len(sent[p]) = 1 /\ ~sent[p][1].ok /\ response[p] = 500

\* C5: a request to an event endpoint whose method is not POST is answered 405;
\* its body is not decoded and no broker write is attempted for it.
C5_MethodNotAllowed ==
    \A p \in Handlers :
        (req[p].http /\ req[p].method # "POST") =>
            /\ pc[p] = "done"
            /\ response[p] = 405
            /\ eventData[p] = NoEvent
            /\ sent[p] = <<>>

\* C5 witness: a PUT carrying a complete movie event was answered 405.
C5_Witness ==
    \E p \in Handlers :
        /\ req[p].http /\ req[p].method = "PUT"
        /\ req[p].endpoint = "/api/events/movie" /\ CompleteEvent(req[p])
        /\ pc[p] = "done" /\ response[p] = 405

\* C6: a POST whose body cannot be decoded as the endpoint's event variant is
\* answered 400 and no broker write is attempted for it.
C6_UndecodableRejected ==
    \A p \in Handlers :
        (Posted(p) /\ Parsed(req[p]).err) =>
            /\ pc[p] = "done"
            /\ response[p] = 400
            /\ sent[p] = <<>>

\* C6 witness: a movie event whose movie_id is a JSON string was answered 400
\* while another handler is publishing.
C6_Witness ==
    \E p \in Handlers : \E q \in Handlers :
        /\ Posted(p) /\ req[p].body = MovieBadType
        /\ req[p].endpoint = "/api/events/movie"
        /\ pc[p] = "done" /\ response[p] = 400
        /\ pc[q] = "done" /\ Len(sent[q]) = 1

(***************************************************************************)
(* Properties of the proxy.                                                *)
(***************************************************************************)
\* the path lies in the movies area
MoviesArea(path) ==
    Len(path) >= 11 /\ SubSeq(path, 1, 11) = Api \o Movies

\* the path lies in the events area
EventsArea(path) ==
    Len(path) >= 11 /\ SubSeq(path, 1, 11) = Api \o Events

\* the last request went through mainHandler
Routed == lastRequest.handler = "mainHandler"

\* C7: a path with neither the /api/movies nor the /api/events prefix is routed
\* to the monolith with label "monolith", whatever the gate, the percentage and
\* the draw.
C7_DefaultMonolith ==
    /\ (Routed /\ ~MoviesArea(lastRequest.path) /\ ~EventsArea(lastRequest.path)) =>
          /\ lastRequest.label = "monolith"
          /\ lastRequest.target = config.MonolithURL
    /\ lastRequest = NoGwRequest =>
          \A path \in Paths : \A r \in Draws :
              (~MoviesArea(path) /\ ~EventsArea(path)) =>
                  /\ routeRequest(config, path, r).label = "monolith"
                  /\ routeRequest(config, path, r).target = config.MonolithURL

\* C7 witness: /API/movies went to the monolith with the gate enabled at 100 percent.
C7_Witness ==
    /\ Routed
    /\ lastRequest.path = <<"/", "A", "P", "I">> \o Movies
    /\ config.GradualMigration /\ config.MoviesMigrationPercent = 100
    /\ lastRequest.label = "monolith"

\* C8: with gradual migration disabled, every request in the movies area is
\* routed to the monolith, whatever the percentage.
C8_DisabledMonolith ==
    (Routed /\ MoviesArea(lastRequest.path) /\ ~config.GradualMigration) =>
        /\ lastRequest.label = "monolith"
        /\ lastRequest.target = config.MonolithURL

\* C8 witness: gate disabled, percentage 100, /api/movies/1 went to the monolith.
C8_Witness ==
    /\ Routed /\ MoviesArea(lastRequest.path)
    /\ ~config.GradualMigration /\ config.MoviesMigrationPercent = 100
    /\ lastRequest.label = "monolith"

\* C9: with gradual migration enabled, a movies-area request goes to the movies
\* service exactly when its draw is strictly below the percentage, else to the
\* monolith; so exactly p of the 100 draw values select the movies service.
C9_DrawBelowPercent ==
    /\ (Routed /\ MoviesArea(lastRequest.path) /\ config.GradualMigration) =>
          /\ lastRequest.draw \in 0..99
          /\ lastRequest.label \in {"movies-service", "monolith"}
          /\ lastRequest.label = "movies-service"
                <=> lastRequest.draw < config.MoviesMigrationPercent
          /\ lastRequest.target =
                IF lastRequest.label = "movies-service"
                THEN config.MoviesServiceURL ELSE config.MonolithURL
    /\ (lastRequest = NoGwRequest /\ config.GradualMigration) =>
          \A path \in {q \in Paths : MoviesArea(q)} :
              /\ Cardinality({r \in 0..99 :
                    routeRequest(config, path, r).label = "movies-service"})
                 = config.MoviesMigrationPercent
              /\ Cardinality({r \in 0..99 :
                    routeRequest(config, path, r).label = "monolith"})
                 = 100 - config.MoviesMigrationPercent

\* C9 witness: percentage 50, the draw 49 selected the movies service.
C9_Witness ==
    /\ Routed /\ MoviesArea(lastRequest.path)
    /\ config.GradualMigration /\ config.MoviesMigrationPercent = 50
    /\ lastRequest.draw = 49 /\ lastRequest.label = "movies-service"

\* C10: with gradual migration enabled, percentage 0 routes every movies-area
\* request to the monolith and percentage 100 routes every one to the movies
\* service, whatever the draw.
C10_Extremes ==
    (Routed /\ MoviesArea(lastRequest.path) /\ config.GradualMigration) =>
        /\ config.MoviesMigrationPercent = 0 =>
              /\ lastRequest.label = "monolith"
              /\ lastRequest.target = config.MonolithURL
        /\ config.MoviesMigrationPercent = 100 =>
              /\ lastRequest.label = "movies-service"
              /\ lastRequest.target = config.MoviesServiceURL

\* C10 witness: percentage 100, the largest draw 99 selected the movies service.
C10_Witness ==
    /\ Routed /\ MoviesArea(lastRequest.path)
    /\ config.GradualMigration /\ env.percent = Num(100)
    /\ lastRequest.draw = 99 /\ lastRequest.label = "movies-service"

\* C11: every request in the events area is routed to the events service with
\* label "events-service", whatever the gate, the percentage and the draw, and
\* no draw is taken for it.
C11_EventsAlways ==
    /\ (Routed /\ EventsArea(lastRequest.path)) =>
          /\ lastRequest.label = "events-service"
          /\ lastRequest.target = config.EventsServiceURL
          /\ ~lastRequest.drew
          /\ lastRequest.draw = NoDraw
    /\ lastRequest = NoGwRequest =>
          \A path \in {q \in Paths : EventsArea(q)} : \A r \in Draws :
              routeRequest(config, path, r)
                 = [target |-> config.EventsServiceURL, label |-> "events-service",
                    drew |-> FALSE]

\* C11 witness: /api/events/user went to the events service with the gate
\* enabled at 100 percent and the random source untouched.
C11_Witness ==
    /\ Routed
    /\ lastRequest.path = Api \o Events \o <<"/", "u", "s", "e", "r">>
    /\ config.GradualMigration /\ config.MoviesMigrationPercent = 100
    /\ lastRequest.label = "events-service" /\ randDraws = 0

\* the percentage a value of MOVIES_MIGRATION_PERCENT stands for
StatedPercent(x) == IF x.digits /\ x.v >= 0 /\ x.v <= 100 THEN x.v ELSE 0

\* C12: a non-numeric or out-of-range MOVIES_MIGRATION_PERCENT resolves to 0, a
\* value in 0..100 is kept, so the percentage of the configuration is in 0..100
\* at every routing decision; the proxy starts with every such value.
C12_PercentInRange ==
    /\ config.MoviesMigrationPercent \in 0..100
    /\ config.MoviesMigrationPercent = StatedPercent(env.percent)
    /\ \A x \in PercentTexts : parseMigrationPercent(x) = StatedPercent(x)

\* C12 witness: MOVIES_MIGRATION_PERCENT=101 with the gate enabled; the proxy
\* started and routed a movies request with percentage 0.
C12_Witness ==
    /\ env.percent = Num(101) /\ config.GradualMigration
    /\ Routed /\ MoviesArea(lastRequest.path)
    /\ config.MoviesMigrationPercent = 0 /\ lastRequest.label = "monolith"

\* C14: /health and /api/health are answered by the proxy itself with 200 and
\* service "strangler-fig-proxy"; they never reach routeRequest and are forwarded
\* to no backend, whatever the gate and the percentage.
C14_HealthLocal ==
    /\ lastRequest.path \in {Health, Api \o Health} =>
          /\ lastRequest.handler = "healthHandler"
          /\ lastRequest.status = 200
          /\ lastRequest.service = "strangler-fig-proxy"
          /\ lastRequest.target = "" /\ lastRequest.label = ""
          /\ ~lastRequest.drew
    /\ lastRequest.handler = "healthHandler" =>
          lastRequest.path \in {Health, Api \o Health}

\* C14 witness: /api/health answered 200 locally with the gate enabled.
C14_Witness ==
    /\ lastRequest.path = Api \o Health
    /\ lastRequest.status = 200 /\ lastRequest.target = ""
    /\ config.GradualMigration /\ config.MoviesMigrationPercent = 100

\* C15: with gradual migration disabled no request, on any path, changes the
\* state of the random source.
C15_NoDrawWhenDisabled ==
    [][~config.GradualMigration => randDraws' = randDraws]_vars

\* C15 witness: gate disabled, percentage 50, a movies request was decided with
\* the random source still in its initial state.
C15_Witness ==
    /\ ~config.GradualMigration /\ config.MoviesMigrationPercent = 50
    /\ Routed /\ MoviesArea(lastRequest.path)
    /\ ~lastRequest.drew /\ randDraws = 0


HasError(t) == \E k \in 1..Len(t.log) : t.log[k].kind = "error"

IsMessageLine(l) == l.kind = "message"

MessageLines(t) == SelectSeq(t.log, IsMessageLine)

\* C13: a consumer task that has seen a read error is terminated with its reader
\* closed and stays exactly as it is: it reads nothing more, logs nothing more, and
\* no other task or reader is ever made for its topic.
C13_TerminatedForever ==
    [][\A i \in DOMAIN tasks :
          HasError(tasks[i]) =>
             /\ tasks[i].pc = "terminated"
             /\ ~tasks[i].reader.open
             /\ tasks'[i] = tasks[i]
             /\ \A j \in DOMAIN tasks' :
                   j # i => /\ tasks'[j].topic # tasks[i].topic
                            /\ tasks'[j].reader.topic # tasks[i].topic]_vars

\* C13 witness: a terminated task whose topic holds a message it never read, while
\* the other two tasks run.
C13_Witness ==
    \E i \in DOMAIN tasks :
        /\ HasError(tasks[i]) /\ tasks[i].pc = "terminated"
        /\ Available(i) # {}
        /\ \A j \in DOMAIN tasks : j # i => tasks[j].pc = "running"
        /\ Len(tasks) = Len(TopicList)

\* C16: a task is terminated only after a read error returned by the broker: its
\* context is never done, and a task that has logged no error is still in its loop,
\* however many messages it has read.
C16_OnlyReadErrorEnds ==
    \A i \in DOMAIN tasks :
        /\ ~CtxDone(i)
        /\ tasks[i].pc = "terminated" =>
              /\ tasks[i].log[Len(tasks[i].log)].kind = "error"
              /\ tasks[i].log[Len(tasks[i].log)].cause = "broker"
        /\ ~HasError(tasks[i]) => tasks[i].pc \in {"start", "running", "log"}

\* C16 witness: a task that has read and logged two messages and is reading again.
C16_Witness ==
    \E i \in DOMAIN tasks :
        /\ Len(tasks[i].returned) = 2
        /\ Len(MessageLines(tasks[i])) = 2
        /\ tasks[i].pc = "running"
        /\ ~HasError(tasks[i])


\* C17: while a task is terminated, every other task can still take its next step
\* (start, read a waiting message, log) and ends only on an error of its own, and
\* the handlers still accept requests and write to the broker on every topic.
C17_Independent ==
    \A i \in DOMAIN tasks :
        tasks[i].pc = "terminated" =>
            /\ \A j \in DOMAIN tasks \ {i} :
                  /\ tasks[j].pc = "start" => ENABLED ConsumerStart(j)
                  /\ (tasks[j].pc = "running" /\ Available(j) # {}) =>
                        ENABLED ConsumerReadOk(j)
                  /\ tasks[j].pc = "log" => ENABLED ConsumerLog(j)
                  /\ tasks[j].pc = "terminated" => HasError(tasks[j])
            /\ \A p \in Handlers :
                  /\ (pc[Main] = "serving" /\ pc[p] = "idle" /\ NextConn(p)) =>
                        \A r \in ServiceRequests : ENABLED HandleEvent(p, r)
                  /\ pc[p] = "write" => ENABLED WriteMessages(p)

\* C17 witness: the task of one topic is terminated without having read anything; a
\* message written to its topic has been accepted by the broker, and the task
\* of another topic is logging a message of its own.
C17_Witness ==
    \E i \in DOMAIN tasks :
        /\ tasks[i].pc = "terminated"
        /\ tasks[i].returned = <<>>
        /\ \E p \in Handlers :
              /\ pc[p] = "done" /\ response[p] = StatusCreated
              /\ TopicOfEndpoint(req[p].endpoint) = tasks[i].topic
        /\ \E j \in DOMAIN tasks \ {i} : tasks[j].pc = "log"

\* C18: main starts at most one task per topic and, once the loop is over, exactly
\* one for each of the three topics; a task's reader is bound to the task's own
\* topic and to the one consumer group, every message a task gets is of its own
\* topic, and NewReader has been called once per started task.
C18_OneTaskPerTopic ==
    /\ Len(tasks) <= Cardinality(Topics)
    /\ \A i \in DOMAIN tasks : \A j \in DOMAIN tasks :
          i # j => tasks[i].topic # tasks[j].topic
    /\ pc[Main] \in {"listen", "serving"} =>
          {tasks[i].topic : i \in DOMAIN tasks} = Topics
    /\ pc[Main] \notin {"spawn", "listen", "serving"} => tasks = <<>>
    /\ \A i \in DOMAIN tasks :
          /\ tasks[i].pc # "start" =>
                /\ tasks[i].reader.topic = tasks[i].topic
                /\ tasks[i].reader.group = GroupID
          /\ \A k \in 1..Len(tasks[i].returned) :
                tasks[i].returned[k].topic = tasks[i].topic
    /\ readersMade = Cardinality({i \in DOMAIN tasks : tasks[i].pc # "start"})

\* C18 witness: the server is listening, the three tasks have their readers open,
\* and the tasks of two different topics have each been given a message.
C18_Witness ==
    /\ pc[Main] = "serving"
    /\ Len(tasks) = 3
    /\ readersMade = 3
    /\ \A i \in DOMAIN tasks : tasks[i].reader.open
    /\ Cardinality({i \in DOMAIN tasks : tasks[i].returned # <<>>}) = 2

\* C19: the message lines a task has logged are, line by line, the messages its
\* reads returned, in the same order; only the message just read may be missing,
\* and only until the task logs it.
C19_LoggedInOrder ==
    \A i \in DOMAIN tasks :
        LET lines == MessageLines(tasks[i])
            ret == tasks[i].returned
        IN /\ Len(lines) <= Len(ret)
           /\ \A k \in 1..Len(lines) :
                 /\ lines[k].offset = ret[k].offset
                 /\ lines[k].value = ret[k].value
                 /\ lines[k].topic = ret[k].topic
           /\ Len(ret) - Len(lines) = IF tasks[i].pc = "log" THEN 1 ELSE 0

\* C19 witness: a task has logged two messages with different payloads.
C19_Witness ==
    \E i \in DOMAIN tasks :
        LET lines == MessageLines(tasks[i])
        IN /\ Len(lines) = 2
           /\ lines[1].value # lines[2].value
           /\ lines[1].offset < lines[2].offset

\* C20: on the first use, whoever has returned from getKafkaWriter holds a writer
\* that is not nil; nobody is at the return statement before the construction is
\* complete, and every write to the broker was issued on the constructed writer.
C20_NeverNil ==
    /\ \A p \in Procs :
          /\ Returned(p) => (writer[p] # Nil /\ initCount = 1 /\ onceDone)
          /\ pc[p] = "ret" => kafkaWriter # Nil
    /\ \A p \in Handlers : \A k \in 1..Len(sent[p]) :
          sent[p][k].writer # Nil /\ sent[p][k].writer = kafkaWriter

\* C20 witness: caller 1 has written on the constructed writer while caller 2, which
\* found done unset, is still queued for the lock that main holds.
C20_Witness ==
    /\ pc[1] = "done" /\ Len(sent[1]) = 1
    /\ sent[1][1].writer = kafkaWriter /\ kafkaWriter # Nil
    /\ pc[2] = "lock"
    /\ onceM = Main

====
